---------------------------- MODULE Spec2Model ----------------------------
(***************************************************************************)
(* Model of the "dark" maze demo: src/dark/labyrinth.py (Cell, Edge, Grid, *)
(* Labyrinth.generate), src/dark/ray_tracing.py (RayTracing) and the glue  *)
(* of src/dark/game.py that turns a generated maze into walls.             *)
(*                                                                         *)
(* Python tuples (x, y) are the TLA+ tuples <<x, y>>; Python index 0 is    *)
(* TLA+ index 1.  Arithmetic of the ray tracer is exact rational           *)
(* arithmetic (numerator / denominator pairs compared by                   *)
(* cross-multiplication); float32 rounding is not modelled.                *)
(***************************************************************************)
EXTENDS Integers, Sequences, FiniteSets, TLC

(***************************************************************************)
(* Bounds of the model.                                                    *)
(***************************************************************************)
MaxWidth == 2
MaxHeight == 2
MaxCalls == 2
RngMod == 32
MaxSeed == 2
MaxCoord == 1

(***************************************************************************)
(* Program constant (src/dark/game.py).                                    *)
(***************************************************************************)
CELL_SIZE == 30

VARIABLES
    pc,          \* where the caller is: "none", "ready", "loop", "done", "caster", "traced", "collided"
    width,       \* Grid.width
    height,      \* Grid.height
    grid,        \* Grid.edges (keys in insertion order, cells per edge) and every Cell.set
    edges,       \* local list "edges" of generate
    new_edges,   \* local list "new_edges" of generate
    result,      \* the list the last completed generate returned
    rng,         \* state of the global random generator
    calls,       \* number of generate calls started on this Labyrinth
    seed0,       \* generator state when the current call shuffled
    order,       \* the shuffled list of the current call
    prevSeed,    \* seed0 of the previous call (-1: none)
    prevOrder,   \* order of the previous call
    prevResult,  \* result of the previous call
    walls,       \* the wall list the RayTracing object was built from
    rt,          \* the RayTracing object: wall_start, wall_vec, rays
    origin,      \* argument "position" of the last query
    direction,   \* argument of the last get_wall_collision
    rayPoints,   \* the list the last get_ray_intersections returned
    collision    \* what the last get_wall_collision returned

mazeVars == <<width, height, grid, edges, new_edges, result, rng, calls,
              seed0, order, prevSeed, prevOrder, prevResult>>

rayVars == <<walls, rt, origin, direction, rayPoints, collision>>

vars == <<pc, mazeVars, rayVars>>

(***************************************************************************)
(* Python helpers.                                                         *)
(***************************************************************************)
\* range(n) off by one: n is included
RangeInclusive(n) == 0 .. n

\* range(n): empty for n <= 0
Range(n) == 0 .. (n - 1)

\* Edge(start, end): equality and hash are those of the pair (start, end)
Edge(start, end) == <<start, end>>

\* the bottom edge starts at (x, y) instead of (x, y+1)
CellEdgesTypo(position) ==
    << Edge(position, <<position[1] + 1, position[2]>>),
       Edge(position, <<position[1], position[2] + 1>>),
       Edge(<<position[1], position[2]>>, <<position[1] + 1, position[2] + 1>>),
       Edge(<<position[1] + 1, position[2]>>, <<position[1] + 1, position[2] + 1>>) >>

\* Cell.edges: top, left, bottom, right.  The code keeps them in a set; the
\* order in which Grid.reset walks it is taken to be that of the literal (it
\* only decides the order of the dict's keys, hence which permutation of
\* them a given generator state shuffles to).
CellEdges(position) ==
    << Edge(position, <<position[1] + 1, position[2]>>),
       Edge(position, <<position[1], position[2] + 1>>),
       Edge(<<position[1], position[2] + 1>>, <<position[1] + 1, position[2] + 1>>),
       Edge(<<position[1] + 1, position[2]>>, <<position[1] + 1, position[2] + 1>>) >>

\* a Labyrinth that has no grid yet
EmptyGrid == [keys |-> <<>>, cells |-> <<>>, set |-> <<>>]

\* the cells in the order of "for x in range(width): for y in range(height)"
CellOrder(w, h) ==
    LET nx == Cardinality(Range(w))
        ny == Cardinality(Range(h))
    IN  [k \in 1 .. (nx * ny) |-> <<(k - 1) \div ny, (k - 1) % ny>>]

\* the calls self.edges.setdefault(edge, list()).append(cell) in the order
\* the loops of Grid.reset make them: for each cell, its edges in turn
AppendCalls(w, h) ==
    LET cs == CellOrder(w, h)
        ne == Len(CellEdges(<<0, 0>>))
    IN  [i \in 1 .. (Len(cs) * ne) |->
            [idx  |-> i,
             cell |-> cs[((i - 1) \div ne) + 1],
             edge |-> CellEdges(cs[((i - 1) \div ne) + 1])[((i - 1) % ne) + 1]]]

\* every call on an edge starts a new list: the last cell replaces the others
CellsOfEdgeLastOnly(cs, edge) ==
    LET own == SelectSeq(cs, LAMBDA r : r.edge = edge)
    IN  <<own[Len(own)].cell>>

\* the list a key ends with: the cells appended to it, in call order
CellsOfEdge(cs, edge) ==
    LET own == SelectSeq(cs, LAMBDA r : r.edge = edge)
    IN  [k \in 1 .. Len(own) |-> own[k].cell]

\* Grid.reset: the dict keeps its keys in the order of their first
\* setdefault; every Cell is created with the set {self}
GridReset(w, h) ==
    LET cs == AppendCalls(w, h)
        first == SelectSeq(cs, LAMBDA r :
                     \A j \in 1 .. (r.idx - 1) : cs[j].edge # r.edge)
    IN  [keys  |-> [k \in 1 .. Len(first) |-> first[k].edge],
         cells |-> [e \in {cs[i].edge : i \in 1 .. Len(cs)} |-> CellsOfEdge(cs, e)],
         set   |-> [c \in {cs[i].cell : i \in 1 .. Len(cs)} |-> {c}]]

(***************************************************************************)
(* random.shuffle on the global generator.  The generator is a small       *)
(* linear congruential generator; shuffle is the Fisher-Yates loop of the  *)
(* standard library: for i in reversed(range(1, len(x))):                  *)
(*     j = randbelow(i + 1); x[i], x[j] = x[j], x[i]                       *)
(***************************************************************************)
RandNext(s) == (5 * s + 3) % RngMod

RandBelow(s, n) == (s * n) \div RngMod

Swap(x, i, j) == [x EXCEPT ![i] = x[j], ![j] = x[i]]

\* one round of the loop: j = randbelow(i + 1); x[i], x[j] = x[j], x[i]
\* (i counts from 1 here, so j is drawn below i)
ShuffleRound(st, i) ==
    [list |-> Swap(st.list, i, RandBelow(RandNext(st.rng), i) + 1),
     rng  |-> RandNext(st.rng)]

\* the rounds i = len(x), ..., k of the loop
RECURSIVE ShuffleFrom(_, _, _)
ShuffleFrom(x, s, k) ==
    IF k > Len(x) THEN [list |-> x, rng |-> s]
    ELSE ShuffleRound(ShuffleFrom(x, s, k + 1), k)

\* random.shuffle(x) with the generator in state s: the shuffled list and
\* the state the generator is left in
Shuffle(x, s) == ShuffleFrom(x, s, 2)

(***************************************************************************)
(* Labyrinth.generate, one loop iteration at a time.                       *)
(***************************************************************************)
\* generate forgets to reset the grid
GridForGenerateStale(g, w, h) == g

\* self.grid.reset() at the top of generate
GridForGenerate(g, w, h) == GridReset(w, h)

\* only the two cells of the edge are updated, not their whole partitions
UnionTwoCells(set, cell1, cell2) ==
    [set EXCEPT ![cell1] = set[cell1] \cup set[cell2],
                ![cell2] = set[cell1] \cup set[cell2]]

\* for cell in cell1.set.copy(): cell.set.update(cell2.set)
\* for cell in cell2.set.copy(): cell.set.update(cell1.set)
Union(set, cell1, cell2) ==
    LET after1 == [c \in DOMAIN set |->
                      IF c \in set[cell1] THEN set[c] \cup set[cell2] ELSE set[c]]
    IN  [c \in DOMAIN set |->
            IF c \in after1[cell2] THEN after1[c] \cup after1[cell1] ELSE after1[c]]

\* len(self.grid.edges[edge]) < 2
IsBorder(cells) == Len(cells) < 2

\* the comparison is inverted
NotConnectedInverted(set, cell1, cell2) == set[cell1] = set[cell2]

\* cell1.set != cell2.set
NotConnected(set, cell1, cell2) == set[cell1] # set[cell2]

(***************************************************************************)
(* RayTracing.  A parameter t or u is the pair <<numerator, denominator>>  *)
(* with a positive denominator; <<1, 0>> stands for inf.  A point is the   *)
(* triple <<x numerator, y numerator, denominator>> in lowest terms;       *)
(* <<0, 0, 0>> stands for (nan, nan).                                      *)
(***************************************************************************)
Inf == <<1, 0>>

NanPoint == <<0, 0, 0>>

None == <<>>

NoRayTracing == [wall_start |-> <<>>, wall_vec |-> <<>>, rays |-> <<>>]

Abs(x) == IF x < 0 THEN 0 - x ELSE x

Sign(x) == IF x < 0 THEN 0 - 1 ELSE IF x > 0 THEN 1 ELSE 0

RECURSIVE Gcd(_, _)
Gcd(a, b) == IF b = 0 THEN a ELSE Gcd(b, a % b)

\* a point with a common denominator, in lowest terms
Point(xn, yn, den) ==
    LET g == Gcd(Gcd(Abs(xn), Abs(yn)), den)
    IN  <<xn \div g, yn \div g, den \div g>>

\* the eight directions of a fan of 8 rays (angles k * 45 degrees); each is
\* a positive multiple of the unit vector [cos, sin] the code stores
Directions ==
    << <<1, 0>>, <<1, 1>>, <<0, 1>>, <<0 - 1, 1>>,
       <<0 - 1, 0>>, <<0 - 1, 0 - 1>>, <<0, 0 - 1>>, <<1, 0 - 1>> >>

\* the ray counts whose angles arange(0, 360, 360 / rays) are among them
RayCounts == {4, 8}

\* self.rays for a count of n rays
Rays(n) == [k \in 1 .. n |-> Directions[(k - 1) * (Len(Directions) \div n) + 1]]

\* wall_vec is taken to be the end point alone
WallVecNoStart(wall) == wall[2]

\* self.wall_vec = self.wall_end - self.wall_start
WallVec(wall) == <<wall[2][1] - wall[1][1], wall[2][2] - wall[1][2]>>

\* RayTracing.__init__
RayTracingInit(ws, n) ==
    [wall_start |-> [j \in 1 .. Len(ws) |-> ws[j][1]],
     wall_vec   |-> [j \in 1 .. Len(ws) |-> WallVec(ws[j])],
     rays       |-> Rays(n)]

\* det = A[0,0] * A[1,1] - A[0,1] * A[1,0], with A = stack([d1, d2], axis=-1)
Det(d1, d2) == d1[1] * d2[2] - d2[1] * d1[2]

\* abs(det) < tol: with integer coordinates and tol = 1e-10, det = 0
Parallel(det) == Abs(det) < 1

\* numerator of t = (b[0] * A[1,1] - b[1] * A[0,1]) / det
TNum(b, d2) == b[1] * d2[2] - b[2] * d2[1]

\* numerator of u = (b[0] * A[1,0] - b[1] * A[0,0]) / det
UNum(b, d1) == b[1] * d1[2] - b[2] * d1[1]

\* the bound t <= 1 is dropped
MaskNoUpperT(t, u, den, unlimit) ==
    (t >= 0) /\ (u >= 0) /\ (u <= den)

\* the bound t >= 0 is dropped
MaskNoLowerT(t, u, den, unlimit) ==
    (unlimit \/ (t <= den)) /\ (u >= 0) /\ (u <= den)

\* mask_tu = (t >= 0) & (unlimit | (t <= 1)) & (u >= 0) & (u <= 1),
\* for t / den and u / den with den > 0
Mask(t, u, den, unlimit) ==
    (t >= 0) /\ (unlimit \/ (t <= den)) /\ (u >= 0) /\ (u <= den)

\* t_all and intersections of one (ray, wall) pair
Pair(p1, d1, q1, d2, unlimit) ==
    LET b   == <<q1[1] - p1[1], q1[2] - p1[2]>>
        det == Det(d1, d2)
        den == Abs(det)
        t   == TNum(b, d2) * Sign(det)
        u   == UNum(b, d1) * Sign(det)
    IN  IF ~Parallel(det) /\ Mask(t, u, den, unlimit)
        THEN [t |-> <<t, den>>,
              point |-> Point(p1[1] * den + t * d1[1], p1[2] * den + t * d1[2], den)]
        ELSE [t |-> Inf, point |-> NanPoint]

\* a <= b for distances; inf is the largest
DistLeq(a, b) ==
    IF b[2] = 0 THEN TRUE
    ELSE IF a[2] = 0 THEN FALSE
    ELSE a[1] * b[2] <= b[1] * a[2]

\* torch.argmin: the first index of the minimum
ArgMin(ds) ==
    CHOOSE i \in 1 .. Len(ds) :
        /\ \A j \in 1 .. Len(ds) : DistLeq(ds[i], ds[j])
        /\ \A j \in 1 .. (i - 1) : ~DistLeq(ds[j], ds[i])

\* calculate_intersections for one ray: the row of the (n, m) matrices.
\* distances = t_all * norm(d1) orders the walls as t_all does.
ClosestPoint(p1, d1, caster, unlimit) ==
    LET m    == Len(caster.wall_start)
        row  == [j \in 1 .. m |->
                    Pair(p1, d1, caster.wall_start[j], caster.wall_vec[j], unlimit)]
        dist == [j \in 1 .. m |-> row[j].t]
    IN  row[ArgMin(dist)].point

\* get_ray_intersections: one point per ray, unlimit = True
RayIntersections(caster, p) ==
    [k \in 1 .. Len(caster.rays) |-> ClosestPoint(p, caster.rays[k], caster, TRUE)]

\* get_wall_collision: None when the closest point is nan
WallCollision(caster, p, d) ==
    LET point == ClosestPoint(p, d, caster, FALSE)
    IN  IF point = NanPoint THEN None ELSE point

\* generate_labyrinth of game.py: the retained edges in world units
ScaleWalls(es) ==
    [j \in 1 .. Len(es) |->
        << <<es[j][1][1] * CELL_SIZE, es[j][1][2] * CELL_SIZE>>,
           <<es[j][2][1] * CELL_SIZE, es[j][2][2] * CELL_SIZE>> >>]

Init ==
    /\ pc = "none"
    /\ width = 0
    /\ height = 0
    /\ grid = EmptyGrid
    /\ edges = <<>>
    /\ new_edges = <<>>
    /\ result = <<>>
    /\ rng \in 0 .. (RngMod - 1)
    /\ calls = 0
    /\ seed0 = -1
    /\ order = <<>>
    /\ prevSeed = -1
    /\ prevOrder = <<>>
    /\ prevResult = <<>>
    /\ walls = <<>>
    /\ rt = NoRayTracing
    /\ origin = <<0, 0>>
    /\ direction = <<0, 0>>
    /\ rayPoints = <<>>
    /\ collision = None

\* Labyrinth(width, height): Grid.__init__ stores the dimensions and resets
Construct(w, h) ==
    /\ pc = "none"
    /\ pc' = "ready"
    /\ width' = w
    /\ height' = h
    /\ grid' = GridReset(w, h)
    /\ UNCHANGED <<edges, new_edges, result, rng, calls, seed0, order,
                   prevSeed, prevOrder, prevResult>>
    /\ UNCHANGED rayVars

\* random.seed(s) by the caller, between calls
Seed(s) ==
    /\ pc \in {"ready", "done"}
    /\ calls < MaxCalls
    /\ rng # s
    /\ rng' = s
    /\ UNCHANGED <<pc, width, height, grid, edges, new_edges, result, calls,
                   seed0, order, prevSeed, prevOrder, prevResult>>
    /\ UNCHANGED rayVars

\* generate, lines 82-87: reset, list of the keys, shuffle
GenerateStart ==
    /\ pc \in {"ready", "done"}
    /\ calls < MaxCalls
    /\ LET g  == GridForGenerate(grid, width, height)
           sh == Shuffle(g.keys, rng)
       IN  /\ grid' = g
           /\ edges' = sh.list
           /\ order' = sh.list
           /\ rng' = sh.rng
    /\ new_edges' = <<>>
    /\ seed0' = rng
    /\ calls' = calls + 1
    /\ prevSeed' = seed0
    /\ prevOrder' = order
    /\ prevResult' = result
    /\ pc' = "loop"
    /\ UNCHANGED <<width, height, result>>
    /\ UNCHANGED rayVars

\* one iteration of "while edges"
LoopStep ==
    /\ pc = "loop"
    /\ edges # <<>>
    /\ LET edge  == edges[Len(edges)]
           cells == grid.cells[edge]
       IN  /\ edges' = SubSeq(edges, 1, Len(edges) - 1)
           /\ IF IsBorder(cells)
              THEN /\ new_edges' = Append(new_edges, edge)
                   /\ grid' = grid
              ELSE IF NotConnected(grid.set, cells[1], cells[2])
                   THEN /\ grid' = [grid EXCEPT !.set = Union(@, cells[1], cells[2])]
                        /\ new_edges' = new_edges
                   ELSE /\ new_edges' = Append(new_edges, edge)
                        /\ grid' = grid
    /\ UNCHANGED <<pc, width, height, result, rng, calls, seed0, order,
                   prevSeed, prevOrder, prevResult>>
    /\ UNCHANGED rayVars

\* "return new_edges" once the list is empty
GenerateReturn ==
    /\ pc = "loop"
    /\ edges = <<>>
    /\ result' = new_edges
    /\ pc' = "done"
    /\ UNCHANGED <<width, height, grid, edges, new_edges, rng, calls, seed0,
                   order, prevSeed, prevOrder, prevResult>>
    /\ UNCHANGED rayVars

\* Game.reset: RayTracing(generate_labyrinth(), rays) on the one maze of a
\* fresh Labyrinth (a maze has at least its four border walls)
RayTracingOfMaze(n) ==
    /\ pc = "done"
    /\ calls = 1
    /\ result # <<>>
    /\ walls' = ScaleWalls(result)
    /\ rt' = RayTracingInit(ScaleWalls(result), n)
    /\ pc' = "caster"
    /\ UNCHANGED mazeVars
    /\ UNCHANGED <<origin, direction, rayPoints, collision>>

\* RayTracing(walls, rays) on any non-empty wall list
RayTracingOfWalls(ws, n) ==
    /\ pc = "none"
    /\ walls' = ws
    /\ rt' = RayTracingInit(ws, n)
    /\ pc' = "caster"
    /\ UNCHANGED mazeVars
    /\ UNCHANGED <<origin, direction, rayPoints, collision>>

\* A query reads the caster and leaves it as it is, so each query is taken
\* from the state the constructor left.
GetRayIntersections(p) ==
    /\ pc = "caster"
    /\ origin' = p
    /\ rayPoints' = RayIntersections(rt, p)
    /\ pc' = "traced"
    /\ UNCHANGED mazeVars
    /\ UNCHANGED <<walls, rt, direction, collision>>

GetWallCollision(p, d) ==
    /\ pc = "caster"
    /\ origin' = p
    /\ direction' = d
    /\ collision' = WallCollision(rt, p, d)
    /\ pc' = "collided"
    /\ UNCHANGED mazeVars
    /\ UNCHANGED <<walls, rt, rayPoints>>

\* world coordinates strictly inside the maze: on grid lines, at a third
\* and at the middle of a cell
Inside(n) ==
    {i * CELL_SIZE + off :
        i \in 0 .. (n - 1), off \in {0, CELL_SIZE \div 3, CELL_SIZE \div 2}} \ {0}

MazePositions == {<<x, y>> : x \in Inside(width), y \in Inside(height)}

Next ==
    \/ \E w \in (0 - 1) .. MaxWidth, h \in (0 - 1) .. MaxHeight : Construct(w, h)
    \/ \E s \in 0 .. (MaxSeed - 1) : Seed(s)
    \/ GenerateStart
    \/ LoopStep
    \/ GenerateReturn
    \/ \E n \in RayCounts : RayTracingOfMaze(n)
    \/ /\ pc = "caster"
       /\ \E p \in MazePositions : GetRayIntersections(p)

Spec == Init /\ [][Next]_vars

(***************************************************************************)
(* The ray tracer on arbitrary walls: one or two walls whose ends are      *)
(* corners of a coarse lattice (step 2), zero-length walls included,       *)
(* queried from the corners towards the points of the fine lattice (step   *)
(* 1), so that a direction may end before, on or beyond a wall.            *)
(***************************************************************************)
Corners == {<<2 * x, 2 * y>> : x \in 0 .. MaxCoord, y \in 0 .. MaxCoord}

Lattice == {<<x, y>> : x \in 0 .. (2 * MaxCoord), y \in 0 .. (2 * MaxCoord)}

WallPool == Corners \X Corners

\* a rank of the walls of the pool, to take each pair of walls once
Rank(w) == ((w[1][1] * (2 * MaxCoord + 1) + w[1][2]) * (2 * MaxCoord + 1) + w[2][1])
               * (2 * MaxCoord + 1) + w[2][2]

WallLists ==
    {<<a>> : a \in WallPool}
        \cup {<<w[1], w[2]>> : w \in {v \in WallPool \X WallPool : Rank(v[1]) <= Rank(v[2])}}

InitRay == Init /\ rng = 0

NextRay ==
    \/ /\ pc = "none"
       /\ \E ws \in WallLists : RayTracingOfWalls(ws, Len(Directions))
    \/ /\ pc = "caster"
       /\ \E p \in Corners, target \in Lattice :
             GetWallCollision(p, <<target[1] - p[1], target[2] - p[2]>>)

SpecRay == InitRay /\ [][NextRay]_vars

(***************************************************************************)
(* Geometry of a width x height grid, stated independently of Grid.reset.  *)
(***************************************************************************)
ValidDims == width >= 1 /\ height >= 1

SeqToSet(s) == {s[i] : i \in 1 .. Len(s)}

GridCells == {<<x, y>> : x \in 0 .. (width - 1), y \in 0 .. (height - 1)}

HorizontalEdges ==
    {<< <<x, y>>, <<x + 1, y>> >> : x \in 0 .. (width - 1), y \in 0 .. height}

VerticalEdges ==
    {<< <<x, y>>, <<x, y + 1>> >> : x \in 0 .. width, y \in 0 .. (height - 1)}

GridEdges == HorizontalEdges \cup VerticalEdges

\* the cells of the grid that touch an edge
CellsAt(e) ==
    IF e[1][2] = e[2][2]
    THEN {<<e[1][1], e[1][2] - 1>>, <<e[1][1], e[1][2]>>} \cap GridCells
    ELSE {<<e[1][1] - 1, e[1][2]>>, <<e[1][1], e[1][2]>>} \cap GridCells

BorderEdges == {e \in GridEdges : Cardinality(CellsAt(e)) = 1}

InteriorEdges == {e \in GridEdges : Cardinality(CellsAt(e)) = 2}

Count(s, e) == Cardinality({i \in 1 .. Len(s) : s[i] = e})

\* pairs of adjacent cells whose separating edge is in the set "open"
Passages(open) == {CellsAt(e) : e \in open \cap InteriorEdges}

RECURSIVE Reachable(_, _)
Reachable(S, P) ==
    LET T == S \cup UNION {p \in P : p \cap S # {}}
    IN  IF T = S THEN S ELSE Reachable(T, P)

\* the dual graph left by a list of walls is a spanning tree of the cells
PerfectMaze(retained) ==
    LET P == Passages(GridEdges \ SeqToSet(retained))
    IN  /\ Cardinality(P) = width * height - 1
        /\ \A c \in GridCells : Reachable({c}, P) = GridCells

\* the interior edges removed so far by the running call
Removed == InteriorEdges \ (SeqToSet(edges) \cup SeqToSet(new_edges))

NumPartitions(set) == Cardinality({set[c] : c \in DOMAIN set})

(***************************************************************************)
(* C1: for every valid grid and every shuffled order, the list generate    *)
(* returns leaves a dual graph that is connected and has exactly           *)
(* width*height - 1 passages: a spanning tree of the cells.                *)
(***************************************************************************)
C1_SpanningTree == (pc = "done" /\ ValidDims) => PerfectMaze(result)

C1_Witness ==
    /\ pc = "done"
    /\ width >= 2
    /\ height >= 2
    /\ \E e \in InteriorEdges : Count(result, e) = 1

(***************************************************************************)
(* C2: every border edge of a valid grid is in the list generate returns,  *)
(* exactly once.                                                           *)
(***************************************************************************)
C2_BorderRetainedOnce ==
    (pc = "done" /\ ValidDims) => \A e \in BorderEdges : Count(result, e) = 1

C2_Witness ==
    /\ pc = "done"
    /\ width >= 2
    /\ height >= 2
    /\ Len(result) > Cardinality(BorderEdges)

(***************************************************************************)
(* C3 as stated: a grid with width <= 0 or height <= 0 is never built and  *)
(* no maze is produced for it (construction fails with InvalidDimension).  *)
(***************************************************************************)
C3_InvalidDimensionRejected == pc # "none" => ValidDims

(***************************************************************************)
(* C3 as amended: building a grid with width <= 0 or height <= 0 raises    *)
(* nothing; the grid has no cell and no edge, and generate returns the     *)
(* empty list.                                                             *)
(***************************************************************************)
C3_EmptyGridForInvalidDimension ==
    (pc # "none" /\ ~ValidDims) =>
        /\ grid.keys = <<>>
        /\ DOMAIN grid.cells = {}
        /\ DOMAIN grid.set = {}
        /\ (pc = "done" => result = <<>>)

C3_Witness == pc = "done" /\ width <= 0 /\ height >= 1 /\ calls >= 1

(***************************************************************************)
(* C4: after Grid.reset on a valid grid the mapping holds each geometric   *)
(* edge exactly once, width*(height+1) + height*(width+1) in all; a        *)
(* boundary edge maps to exactly 1 cell, an interior edge to exactly the   *)
(* 2 distinct cells it separates.                                          *)
(***************************************************************************)
C4_EdgeMapping ==
    (pc # "none" /\ ValidDims) =>
        /\ Len(grid.keys) = width * (height + 1) + height * (width + 1)
        /\ SeqToSet(grid.keys) = GridEdges
        /\ DOMAIN grid.cells = GridEdges
        /\ \A e \in GridEdges :
              /\ Count(grid.keys, e) = 1
              /\ SeqToSet(grid.cells[e]) = CellsAt(e)
              /\ Len(grid.cells[e]) = Cardinality(CellsAt(e))
              /\ Len(grid.cells[e]) \in {1, 2}

C4_Witness ==
    /\ pc = "ready"
    /\ width >= 2
    /\ height >= 2
    /\ \E e \in DOMAIN grid.cells : Len(grid.cells[e]) = 2
    /\ \E e \in DOMAIN grid.cells : Len(grid.cells[e]) = 1

(***************************************************************************)
(* C5: every generate call on the same Labyrinth rebuilds the grid first:  *)
(* when its loop starts every cell is alone in its partition, whatever the *)
(* earlier calls merged, and the second and later calls return a perfect   *)
(* maze too.                                                               *)
(***************************************************************************)
C5_FreshGridEachCall ==
    /\ (pc = "loop" /\ edges = order) =>
          \A c \in DOMAIN grid.set : grid.set[c] = {c}
    /\ (pc = "loop" /\ edges = order) => DOMAIN grid.set = GridCells
    /\ (pc = "done" /\ calls >= 2 /\ ValidDims) => PerfectMaze(result)

C5_Witness ==
    /\ pc = "done"
    /\ calls >= 2
    /\ width >= 2
    /\ height >= 2
    /\ prevResult # result

(***************************************************************************)
(* C6: a later generate call on the same grid that starts from the same    *)
(* generator state shuffles to the same order, and a call with the same    *)
(* shuffled order returns the identical list.                              *)
(***************************************************************************)
C6_SameSeedSameMaze ==
    (calls >= 2 /\ pc \in {"loop", "done"}) =>
        /\ seed0 = prevSeed => order = prevOrder
        /\ (pc = "done" /\ order = prevOrder) => result = prevResult

C6_Witness ==
    /\ pc = "done"
    /\ calls >= 2
    /\ seed0 = prevSeed
    /\ width >= 2
    /\ height >= 2

(***************************************************************************)
(* C10: at every iteration of the edge loop the per-cell sets are a        *)
(* consistent partition (c in c.set, every member of c.set has the same    *)
(* set, and c.set is what c reaches through the interior edges removed so  *)
(* far); an interior edge is removed iff its two cells were not connected  *)
(* when it was processed, and a removal lowers the number of partitions by *)
(* exactly one.                                                            *)
(***************************************************************************)
PartitionConsistent ==
    pc \in {"loop", "done"} =>
        \A c \in DOMAIN grid.set :
            /\ c \in grid.set[c]
            /\ \A d \in grid.set[c] : grid.set[d] = grid.set[c]
            /\ grid.set[c] = Reachable({c}, Passages(Removed))

RemovalStep ==
    (pc = "loop" /\ edges # <<>> /\ edges[Len(edges)] \in InteriorEdges) =>
        LET edge == edges[Len(edges)]
            c1   == grid.cells[edge][1]
            c2   == grid.cells[edge][2]
            wasConnected == c2 \in Reachable({c1}, Passages(Removed))
            removed == new_edges' = new_edges
        IN  /\ removed <=> ~wasConnected
            /\ removed => NumPartitions(grid'.set) = NumPartitions(grid.set) - 1
            /\ ~removed => /\ new_edges' = Append(new_edges, edge)
                           /\ grid' = grid

C10_PartitionInvariant == []PartitionConsistent /\ [][RemovalStep]_vars

C10_Witness ==
    /\ pc = "loop"
    /\ \E c \in DOMAIN grid.set : Cardinality(grid.set[c]) >= 3
    /\ edges # <<>>
    /\ edges[Len(edges)] \in InteriorEdges
    /\ ~NotConnected(grid.set, grid.cells[edges[Len(edges)]][1],
                     grid.cells[edges[Len(edges)]][2])

(***************************************************************************)
(* Line-segment intersection, stated independently of                      *)
(* calculate_intersections: the ray p + t*r meets the line of the wall     *)
(* (s, e) at t = Cross(s - p, e - s) / Cross(r, e - s).                    *)
(***************************************************************************)
Cross(a, b) == a[1] * b[2] - a[2] * b[1]

Dot(a, b) == a[1] * b[1] + a[2] * b[2]

Minus(a, b) == <<a[1] - b[1], a[2] - b[2]>>

Degenerate(w) == w[1] = w[2]

\* t as numerator and positive denominator
TOf(p, r, w) ==
    LET den == Cross(r, Minus(w[2], w[1]))
        num == Cross(Minus(w[1], p), Minus(w[2], w[1]))
    IN  IF den < 0 THEN <<0 - num, 0 - den>> ELSE <<num, den>>

\* the point p + t*r over the denominator of t
HitPoint(p, r, w) ==
    LET t == TOf(p, r, w)
    IN  <<p[1] * t[2] + t[1] * r[1], p[2] * t[2] + t[1] * r[2], t[2]>>

\* a point lies between the two ends of a wall
OnWall(x, w) ==
    LET v == Minus(w[2], w[1])
        a == <<x[1] - w[1][1] * x[3], x[2] - w[1][2] * x[3]>>
    IN  /\ x[3] > 0
        /\ Cross(a, v) = 0
        /\ Dot(a, v) >= 0
        /\ Dot(a, v) <= x[3] * Dot(v, v)

\* the ray from p along r crosses the wall at some t >= 0 (t <= 1 too when
\* bounded), not being parallel to it
Hits(p, r, w, bounded) ==
    /\ Cross(r, Minus(w[2], w[1])) # 0
    /\ TOf(p, r, w)[1] >= 0
    /\ bounded => TOf(p, r, w)[1] <= TOf(p, r, w)[2]
    /\ OnWall(HitPoint(p, r, w), w)

TLeq(p, r, w1, w2) ==
    TOf(p, r, w1)[1] * TOf(p, r, w2)[2] <= TOf(p, r, w2)[1] * TOf(p, r, w1)[2]

SamePoint(a, b) ==
    /\ Len(a) = 3
    /\ a[3] > 0
    /\ b[3] > 0
    /\ a[1] * b[3] = b[1] * a[3]
    /\ a[2] * b[3] = b[2] * a[3]

\* the walls a query from p along r may report, and the nearest of them
HitWalls(p, r, bounded) == {j \in 1 .. Len(walls) : Hits(p, r, walls[j], bounded)}

NearestOf(H, p, r) == {j \in H : \A i \in H : TLeq(p, r, walls[j], walls[i])}

Nearest(p, r, bounded) == NearestOf(HitWalls(p, r, bounded), p, r)

C7_WitnessNone ==
    /\ pc = "collided"
    /\ direction # <<0, 0>>
    /\ collision = None
    /\ \E i \in 1 .. Len(walls) : Hits(origin, direction, walls[i], FALSE)

C9_DegenerateWallRejected ==
    pc \in {"caster", "collided", "traced"} =>
        \A j \in 1 .. Len(walls) : ~Degenerate(walls[j])

(***************************************************************************)
(* C9 as amended: a wall list with a zero-length wall is accepted, the     *)
(* caster answers queries, and the zero-length wall is never reported:     *)
(* a point get_wall_collision returns lies on a wall of non-zero length,   *)
(* and a caster of zero-length walls alone returns None.                   *)
(***************************************************************************)
C9_DegenerateWallIgnored ==
    (pc = "collided" /\ \E j \in 1 .. Len(walls) : Degenerate(walls[j])) =>
        /\ collision # None =>
              \E j \in 1 .. Len(walls) :
                  /\ ~Degenerate(walls[j])
                  /\ Len(collision) = 3
                  /\ OnWall(collision, walls[j])
        /\ (\A j \in 1 .. Len(walls) : Degenerate(walls[j])) => collision = None

C9_Witness ==
    /\ pc = "collided"
    /\ Len(walls) = 2
    /\ Degenerate(walls[1])
    /\ ~Degenerate(walls[2])
    /\ collision # None

=============================================================================
